---- MODULE Spec2Model ----
(***************************************************************************)
(* A model of the ray tracing kernel of package rt (jbert/rt).             *)
(*                                                                         *)
(* float64 values are modelled by exact rationals in lowest terms, so the  *)
(* geometry is the code's formulas without rounding error.  The one place  *)
(* where the code takes square roots that matter for a result byte, the    *)
(* incidence of Scene.illumination, is modelled at a fixed resolution      *)
(* (see Incidence).  NaN and the conversion of a float64 that uint8 cannot *)
(* hold are modelled explicitly.                                           *)
(***************************************************************************)
EXTENDS Integers, Sequences, FiniteSets, TLC

----------------------------------------------------------------------------
(* Rational numbers: records [n, d] with d > 0 and gcd(n, d) = 1.          *)

Abs(i) == IF i < 0 THEN -i ELSE i

RECURSIVE GCD(_, _)
GCD(a, b) == IF b = 0 THEN a ELSE GCD(b, a % b)

Rat(n, d) ==
    IF d = 1 THEN [n |-> n, d |-> 1]
    ELSE
    LET s == IF d < 0 THEN -1 ELSE 1
        g == GCD(Abs(n), Abs(d))
    IN  [n |-> (s * n) \div g, d |-> (s * d) \div g]

I(i) == [n |-> i, d |-> 1]

RNeg(a) == [n |-> -a.n, d |-> a.d]

(* Sums are formed over the least common denominator, and products after   *)
(* cancelling across the two fractions, which keeps the integers small.    *)
RAdd(a, b) ==
    IF a.d = 1 /\ b.d = 1 THEN [n |-> a.n + b.n, d |-> 1]
    ELSE
    LET g == GCD(a.d, b.d)
    IN  Rat(a.n * (b.d \div g) + b.n * (a.d \div g), (a.d \div g) * b.d)

RSub(a, b) == RAdd(a, RNeg(b))

RMul(a, b) ==
    IF a.d = 1 /\ b.d = 1 THEN [n |-> a.n * b.n, d |-> 1]
    ELSE
    LET g1 == GCD(Abs(a.n), b.d)
        g2 == GCD(Abs(b.n), a.d)
    IN  [n |-> (a.n \div g1) * (b.n \div g2), d |-> (a.d \div g2) * (b.d \div g1)]

RDiv(a, b) == RMul(a, Rat(b.d, b.n))

RAbs(a) == [n |-> Abs(a.n), d |-> a.d]
RFloor(a) == a.n \div a.d

(* a < b, by the continued fraction expansions of a and b: no product of   *)
(* a numerator with a denominator is formed.                               *)
RECURSIVE RLess(_, _)
RLess(a, b) ==
    LET fa == RFloor(a)
        fb == RFloor(b)
        ra == a.n - fa * a.d
        rb == b.n - fb * b.d
    IN  IF fa # fb THEN fa < fb
        ELSE IF rb = 0 THEN FALSE
        ELSE IF ra = 0 THEN TRUE
        ELSE RLess([n |-> b.d, d |-> rb], [n |-> a.d, d |-> ra])

RLeq(a, b) == ~RLess(b, a)

----------------------------------------------------------------------------
(* P3: a 3d point or vector, <<X, Y, Z>> of rationals.                     *)

P3(x, y, z) == <<I(x), I(y), I(z)>>

Origin == P3(0, 0, 0)

Epsilon == [n |-> 1, d |-> 1000000]

Add(p, q) == <<RAdd(p[1], q[1]), RAdd(p[2], q[2]), RAdd(p[3], q[3])>>

Sub(p, q) == <<RSub(p[1], q[1]), RSub(p[2], q[2]), RSub(p[3], q[3])>>

Scale(p, s) == <<RMul(p[1], s), RMul(p[2], s), RMul(p[3], s)>>

Dot(p, q) == RAdd(RAdd(RMul(p[1], q[1]), RMul(p[2], q[2])), RMul(p[3], q[3]))

Cross(p, q) ==
    << RSub(RMul(p[2], q[3]), RMul(p[3], q[2])),
       RSub(RMul(p[3], q[1]), RMul(p[1], q[3])),
       RSub(RMul(p[1], q[2]), RMul(p[2], q[1])) >>

(* Len(p)^2.  Len is math.Sqrt of it; Sqrt is increasing, so two lengths   *)
(* compare as their squares do.                                            *)
Len2(p) == Dot(p, p)

LenLess(p, q) == RLess(Len2(p), Len2(q))

----------------------------------------------------------------------------
(* T3: a triangle [A, B, C].                                               *)

T3(a, b, c) == [A |-> a, B |-> b, C |-> c]

normal(t3) ==
    LET e1 == Sub(t3.B, t3.A)
        e2 == Sub(t3.C, t3.A)
    IN  Cross(e1, e2)

NoHitUV == [p |-> Origin, hit |-> FALSE, u |-> I(0), v |-> I(0)]

(* A faulty IntersectUV: the test u < 0 is left out.                       *)
IntersectUVNoLower(t3, r) ==
    LET e1 == Sub(t3.A, t3.C)
        e2 == Sub(t3.B, t3.C)
        P == Cross(r.Dir, e2)
        det == Dot(P, e1)
    IN  IF RLess(RAbs(det), Epsilon) THEN NoHitUV
        ELSE
        LET invDet == RDiv(I(1), det)
            T == Sub(r.At, t3.C)
            u == RMul(Dot(T, P), invDet)
            Q == Cross(T, e1)
            v == RMul(Dot(r.Dir, Q), invDet)
            t == RMul(Dot(e2, Q), invDet)
        IN  IF \/ RLess(I(1), u)
               \/ RLess(v, I(0)) \/ RLess(I(1), RAdd(u, v))
               \/ ~RLess(Epsilon, t)
            THEN NoHitUV
            ELSE [p |-> Add(Add(t3.C, Scale(e1, u)), Scale(e2, v)),
                  hit |-> TRUE, u |-> u, v |-> v]

(* A faulty last stretch: a hit behind the ray's origin is accepted.       *)
UVWithVBehind(t3, e1, e2, u, v, t) ==
    IF RLess(v, I(0)) \/ RLess(I(1), RAdd(u, v)) THEN NoHitUV
    ELSE [p |-> Add(Add(t3.C, Scale(e1, u)), Scale(e2, v)),
          hit |-> TRUE, u |-> u, v |-> v]

(* A faulty last stretch: the position takes e1 by v and e2 by u.          *)
UVWithVSwapped(t3, e1, e2, u, v, t) ==
    IF RLess(v, I(0)) \/ RLess(I(1), RAdd(u, v)) THEN NoHitUV
    ELSE IF RLess(Epsilon, t)
         THEN [p |-> Add(Add(t3.C, Scale(e1, v)), Scale(e2, u)),
               hit |-> TRUE, u |-> u, v |-> v]
         ELSE NoHitUV

(* T3.IntersectUV: Moller-Trumbore with the edges taken from C.  The four  *)
(* definitions are the function's four stretches, each up to its next      *)
(* return; a value computed in one stretch reaches the later ones as an    *)
(* argument.                                                               *)
UVWithV(t3, e1, e2, u, v, t) ==
    IF RLess(v, I(0)) \/ RLess(I(1), RAdd(u, v)) THEN NoHitUV
    ELSE IF RLess(Epsilon, t)
         THEN [p |-> Add(Add(t3.C, Scale(e1, u)), Scale(e2, v)),
               hit |-> TRUE, u |-> u, v |-> v]
         ELSE NoHitUV

UVWithU(t3, r, e1, e2, invDet, T, u) ==
    IF RLess(u, I(0)) \/ RLess(I(1), u) THEN NoHitUV
    ELSE LET Q == Cross(T, e1)
         IN  UVWithV(t3, e1, e2, u,
                     RMul(Dot(r.Dir, Q), invDet), RMul(Dot(e2, Q), invDet))

UVWithDet(t3, r, e1, e2, P, det) ==
    IF RLess(RAbs(det), Epsilon) THEN NoHitUV
    ELSE LET invDet == RDiv(I(1), det)
             T == Sub(r.At, t3.C)
         IN  UVWithU(t3, r, e1, e2, invDet, T, RMul(Dot(T, P), invDet))

IntersectUV(t3, r) ==
    LET e1 == Sub(t3.A, t3.C)
        e2 == Sub(t3.B, t3.C)
        P == Cross(r.Dir, e2)
    IN  UVWithDet(t3, r, e1, e2, P, Dot(P, e1))

(* T3.IntersectUV of the earlier version: the edges are taken from A.      *)
UVAWithV(t3, e1, e2, u, v, t) ==
    IF RLess(v, I(0)) \/ RLess(I(1), RAdd(u, v)) THEN NoHitUV
    ELSE IF RLess(Epsilon, t)
         THEN [p |-> Add(Add(t3.A, Scale(e1, u)), Scale(e2, v)),
               hit |-> TRUE, u |-> u, v |-> v]
         ELSE NoHitUV

(* A faulty stretch: a point on the edge u = 0 is refused.                 *)
UVAWithUStrict(t3, r, e1, e2, invDet, T, u) ==
    IF RLeq(u, I(0)) \/ RLess(I(1), u) THEN NoHitUV
    ELSE LET Q == Cross(T, e1)
         IN  UVAWithV(t3, e1, e2, u,
                      RMul(Dot(r.Dir, Q), invDet), RMul(Dot(e2, Q), invDet))

UVAWithU(t3, r, e1, e2, invDet, T, u) ==
    IF RLess(u, I(0)) \/ RLess(I(1), u) THEN NoHitUV
    ELSE LET Q == Cross(T, e1)
         IN  UVAWithV(t3, e1, e2, u,
                      RMul(Dot(r.Dir, Q), invDet), RMul(Dot(e2, Q), invDet))

UVAWithDet(t3, r, e1, e2, P, det) ==
    IF RLess(RAbs(det), Epsilon) THEN NoHitUV
    ELSE LET invDet == RDiv(I(1), det)
             T == Sub(r.At, t3.A)
         IN  UVAWithU(t3, r, e1, e2, invDet, T, RMul(Dot(T, P), invDet))

IntersectUVFromA(t3, r) ==
    LET e1 == Sub(t3.B, t3.A)
        e2 == Sub(t3.C, t3.A)
        P == Cross(r.Dir, e2)
    IN  UVAWithDet(t3, r, e1, e2, P, Dot(P, e1))

(* T3.Intersect: the result [st, hit, h, n, tests] of an Item's Intersect. *)
(* st is "ok" when the call returns, and otherwise names how it ends.      *)

NRGBA(r, g, b, a) == [A |-> a, B |-> b, m |-> "NRGBA", R |-> r, G |-> g]

NilColour == [A |-> 0, B |-> 0, m |-> "nil", R |-> 0, G |-> 0]

Hit(at, nrm, col) == [At |-> at, Normal |-> nrm, Colour |-> col]

ZeroHit == Hit(Origin, Origin, NilColour)

Returned(hit, h, n, tests) ==
    [n |-> n, hit |-> hit, h |-> h, tests |-> tests, st |-> "ok"]

NullChildren == [n |-> 0, hit |-> FALSE, h |-> ZeroHit, tests |-> <<>>, st |-> "panic"]

StackOverflow == [n |-> 0, hit |-> FALSE, h |-> ZeroHit, tests |-> <<>>, st |-> "overflow"]

T3Hit(t3, uv) ==
    IF ~uv.hit THEN Returned(FALSE, ZeroHit, 1, <<>>)
    ELSE Returned(TRUE, Hit(uv.p, normal(t3), NRGBA(128, 0, 0, 255)), 1, <<>>)

T3Intersect(t3, r) == T3Hit(t3, IntersectUV(t3, r))

----------------------------------------------------------------------------
(* Colours and images (the standard library's color and image packages).   *)

RGBA64(r, g, b, a) == [A |-> a, B |-> b, m |-> "RGBA64", R |-> r, G |-> g]

White == RGBA64(65535, 65535, 65535, 65535)

(* color.Color.RGBA(): the alpha-premultiplied 16-bit channels.            *)
RGBA(c) ==
    IF c.m = "NRGBA"
    THEN << ((c.R * 257) * c.A) \div 255, ((c.G * 257) * c.A) \div 255,
            ((c.B * 257) * c.A) \div 255, c.A * 257 >>
    ELSE << c.R, c.G, c.B, c.A >>

(* An image: image.Uniform (one colour everywhere), or a pixel image with  *)
(* bounds Min (inclusive) to Max (exclusive), whose At gives the zero      *)
(* colour outside them.                                                    *)
Uniform(c) == [C |-> c, kind |-> "Uniform", Min |-> <<0, 0>>, Max |-> <<0, 0>>, Pix |-> <<>>]

Pixels(w, h, pix) == [C |-> NilColour, kind |-> "Pixels", Min |-> <<0, 0>>, Max |-> <<w, h>>, Pix |-> pix]

InBounds(img, px, py) ==
    /\ img.Min[1] <= px /\ px < img.Max[1]
    /\ img.Min[2] <= py /\ py < img.Max[2]

At(img, px, py) ==
    IF img.kind = "Uniform" THEN img.C
    ELSE IF InBounds(img, px, py) THEN img.Pix[py - img.Min[2] + 1][px - img.Min[1] + 1]
    ELSE NRGBA(0, 0, 0, 0)

(* int(f) of a float64: the fraction is dropped, towards zero.             *)
Trunc(q) == IF q.n >= 0 THEN q.n \div q.d ELSE -((-q.n) \div q.d)

----------------------------------------------------------------------------
(* Kite3: two triangles TA, TB on the diagonal A-B, and a texture.         *)

NewKite3(A, B, C, img) ==
    LET CA == Sub(A, C)
        CB == Sub(B, C)
        C2 == Add(Add(C, CA), CB)
    IN  [kind |-> "Kite3", TA |-> T3(A, B, C), TB |-> T3(A, B, C2), Image |-> img]

(* A faulty uvToColor: u picks the row and v the column.                   *)
uvToColorTransposed(img, u, v) ==
    IF img.kind = "Uniform" THEN img.C
    ELSE
    LET w == I(img.Max[1] - img.Min[1])
        h == I(img.Max[2] - img.Min[2])
        px == img.Min[1] + Trunc(RMul(w, v))
        py == img.Min[2] + Trunc(RMul(h, u))
    IN  At(img, px, py)

(* The closure uvToColor of Kite3.Intersect.  image.Uniform's At ignores   *)
(* the pixel asked for, so for it the pixel is not computed.               *)
uvToColor(img, u, v) ==
    IF img.kind = "Uniform" THEN img.C
    ELSE
    LET w == I(img.Max[1] - img.Min[1])
        h == I(img.Max[2] - img.Min[2])
        px == img.Min[1] + Trunc(RMul(w, u))
        py == img.Min[2] + Trunc(RMul(h, v))
    IN  At(img, px, py)

(* A faulty Kite3.Intersect: TB is tested first.                           *)
Kite3HitTBFirst(k3, a, b) ==
    IF b.hit
    THEN Returned(TRUE, Hit(b.p, normal(k3.TB),
                            uvToColor(k3.Image, RSub(I(1), b.v), RSub(I(1), b.u))),
                  1, <<>>)
    ELSE IF a.hit
         THEN Returned(TRUE, Hit(a.p, normal(k3.TA), uvToColor(k3.Image, a.u, a.v)), 2, <<>>)
         ELSE Returned(FALSE, ZeroHit, 2, <<>>)

(* A faulty Kite3.Intersect: a hit of TB is sampled at (1-u, 1-v).         *)
Kite3HitMirrored(k3, a, b) ==
    IF a.hit
    THEN Returned(TRUE, Hit(a.p, normal(k3.TA), uvToColor(k3.Image, a.u, a.v)), 1, <<>>)
    ELSE IF b.hit
         THEN Returned(TRUE, Hit(b.p, normal(k3.TB),
                                 uvToColor(k3.Image, RSub(I(1), b.u), RSub(I(1), b.v))),
                       2, <<>>)
         ELSE Returned(FALSE, ZeroHit, 2, <<>>)

(* a and b are what TA.IntersectUV and TB.IntersectUV return; b is only    *)
(* looked at when a is a miss.                                             *)
Kite3Hit(k3, a, b) ==
    IF a.hit
    THEN Returned(TRUE, Hit(a.p, normal(k3.TA), uvToColor(k3.Image, a.u, a.v)), 1, <<>>)
    ELSE IF b.hit
         THEN Returned(TRUE, Hit(b.p, normal(k3.TB),
                                 uvToColor(k3.Image, RSub(I(1), b.v), RSub(I(1), b.u))),
                       2, <<>>)
         ELSE Returned(FALSE, ZeroHit, 2, <<>>)

Kite3Intersect(k3, r) == Kite3Hit(k3, IntersectUV(k3.TA, r), IntersectUV(k3.TB, r))

----------------------------------------------------------------------------
(* Items and composites.  An Item is a T3 or a Kite3 value, or a pointer   *)
(* [kind |-> "Ref", id |-> c] to a composite c.  ch maps each composite to *)
(* its children slice; the nil slice is <<>>.                              *)

T3Item(t3) == [t3 |-> t3, kind |-> "T3"]

Ref(c) == [kind |-> "Ref", id |-> c]

(* The loop of CompositeItem.Intersect that picks the nearest hit.         *)
RECURSIVE NearestFrom(_, _, _)
NearestFrom(hits, i, nearestHit) ==
    IF i > Len(hits) THEN nearestHit
    ELSE NearestFrom(hits, i + 1,
                     IF LenLess(hits[i].At, nearestHit.At) THEN hits[i] ELSE nearestHit)

(* A faulty Nearest: the first hit found wins.                             *)
NearestFirst(hits) == hits[1]

(* A faulty Nearest: of the hits at the least distance the last one wins.  *)
RECURSIVE NearestLastFrom(_, _, _)
NearestLastFrom(hits, i, nearestHit) ==
    IF i > Len(hits) THEN nearestHit
    ELSE NearestLastFrom(hits, i + 1,
                         IF LenLess(nearestHit.At, hits[i].At) THEN nearestHit ELSE hits[i])

NearestLast(hits) == NearestLastFrom(hits, 1, hits[1])

Nearest(hits) == NearestFrom(hits, 1, hits[1])

(* CompositeItem.Intersect on composite c with `depth` stack frames left.  *)
(* A chain of nested calls longer than the number of composites runs       *)
(* through some composite twice, so it never ends: the goroutine's stack   *)
(* overflows.  A panic or an overflow in a child ends the whole call.      *)
RECURSIVE ItemIntersect(_, _, _, _)
RECURSIVE ChildrenFrom(_, _, _, _, _, _, _, _)
(* A faulty loop: it stops at the first child that reports a hit.          *)
RECURSIVE ChildrenFromShort(_, _, _, _, _, _, _, _)
ChildrenFromShort(ch, c, ray, depth, i, hits, totalTests, tests) ==
    IF i > Len(ch[c]) \/ Len(hits) > 0
    THEN IF Len(hits) = 0
         THEN Returned(FALSE, ZeroHit, totalTests, tests)
         ELSE Returned(TRUE, hits[1], totalTests, tests)
    ELSE
    LET got == ItemIntersect(ch, ch[c][i], ray, depth)
    IN  IF got.st # "ok" THEN got
        ELSE ChildrenFromShort(ch, c, ray, depth, i + 1,
                               IF got.hit THEN Append(hits, got.h) ELSE hits,
                               totalTests + got.n, Append(tests, i))

(* One turn of the loop, child i having answered got.                      *)
ChildAnswered(ch, c, ray, depth, i, hits, totalTests, tests, got) ==
    IF got.st # "ok" THEN got
    ELSE ChildrenFrom(ch, c, ray, depth, i + 1,
                      IF got.hit THEN Append(hits, got.h) ELSE hits,
                      totalTests + got.n, Append(tests, i))

ChildrenFrom(ch, c, ray, depth, i, hits, totalTests, tests) ==
    IF i > Len(ch[c])
    THEN IF Len(hits) = 0
         THEN Returned(FALSE, ZeroHit, totalTests, tests)
         ELSE Returned(TRUE, Nearest(hits), totalTests, tests)
    ELSE ChildAnswered(ch, c, ray, depth, i, hits, totalTests, tests,
                       ItemIntersect(ch, ch[c][i], ray, depth))

(* A faulty CompositeItem.Intersect: nil children are not refused.         *)
CompositeIntersectNoCheck(ch, c, ray, depth) ==
    IF depth = 0 THEN StackOverflow
    ELSE ChildrenFrom(ch, c, ray, depth, 1, <<>>, 0, <<>>)

CompositeIntersect(ch, c, ray, depth) ==
    IF depth = 0 THEN StackOverflow
    ELSE IF ch[c] = <<>> THEN NullChildren
    ELSE ChildrenFrom(ch, c, ray, depth, 1, <<>>, 0, <<>>)

ItemIntersect(ch, item, ray, depth) ==
    CASE item.kind = "T3" -> T3Intersect(item.t3, ray)
      [] item.kind = "Kite3" -> Kite3Intersect(item, ray)
      [] item.kind = "Ref" -> CompositeIntersect(ch, item.id, ray, depth - 1)

----------------------------------------------------------------------------
(* The earlier version's items: every Item has a ZMin, and Scene.AddItem   *)
(* sorts the items by it after every append.                               *)

Least(a, b) == IF RLess(b, a) THEN b ELSE a

T3ZMin(t3) == Least(Least(t3.A[3], t3.B[3]), t3.C[3])

Kite3ZMin(k3) == Least(T3ZMin(k3.TA), T3ZMin(k3.TB))

ZMin(item) == IF item.kind = "T3" THEN T3ZMin(item.t3) ELSE Kite3ZMin(item)

(* itemSlice.Less                                                          *)
Less(items, i, j) == RLess(ZMin(items[i]), ZMin(items[j]))

(* The orders of the items of seq.                                         *)
Reorderings(seq) ==
    {[i \in 1..Len(seq) |-> seq[f[i]]] :
        f \in {g \in [1..Len(seq) -> 1..Len(seq)] :
                  \A i, j \in 1..Len(seq) : g[i] = g[j] => i = j}}

(* What sort.Sort may leave: it is not stable, so items of equal ZMin come *)
(* in an order the library chooses.                                        *)
Sorted(seq) ==
    {o \in Reorderings(seq) : \A i, j \in 1..Len(o) : i < j => ~Less(o, j, i)}

----------------------------------------------------------------------------
(* Scene.illumination.                                                     *)

(* The incidence of one light is kept in steps of 1/IncidenceSteps.        *)
IncidenceSteps == 1000

(* A float64 that is a number, or NaN.                                     *)
Num(q) == [q |-> q, nan |-> FALSE]

NaN == [q |-> I(0), nan |-> TRUE]

(* math.Sqrt of a rational in [0, 1], rounded down to a step.              *)
(* The largest k in lo..hi with (k/IncidenceSteps)^2 <= q, by bisection.   *)
RECURSIVE SqrtBetween(_, _, _)
SqrtBetween(q, lo, hi) ==
    IF lo = hi THEN lo
    ELSE LET mid == (lo + hi + 1) \div 2
         IN  IF RLeq(Rat(mid * mid, IncidenceSteps * IncidenceSteps), q)
             THEN SqrtBetween(q, mid, hi)
             ELSE SqrtBetween(q, lo, mid - 1)

SqrtSteps(q) == SqrtBetween(q, 0, IncidenceSteps)

(* math.Abs(vlight.Dot(Normal) / vlight.Len() / Normal.Len()), from the    *)
(* dot product d and l2 = (vlight.Len() * Normal.Len())^2: 0/0 is NaN.     *)
LightRatio(d, l2) ==
    IF l2.n = 0 THEN NaN
    ELSE Num(Rat(SqrtSteps(RDiv(RMul(d, d), l2)), IncidenceSteps))

LightTerm(hit, vlight) ==
    LightRatio(Dot(vlight, hit.Normal), RMul(Len2(vlight), Len2(hit.Normal)))

LightIncidence(hit, light) == LightTerm(hit, Sub(hit.At, light.At))

(* float64 + and /, NaN included.                                          *)
NumAdd(a, b) == IF a.nan \/ b.nan THEN NaN ELSE Num(RAdd(a.q, b.q))

NumDiv(a, count) == IF count = 0 \/ a.nan THEN NaN ELSE Num(RDiv(a.q, I(count)))

RECURSIVE SumIncidence(_, _, _)
SumIncidence(hit, ls, i) ==
    IF i > Len(ls) THEN Num(I(0))
    ELSE NumAdd(LightIncidence(hit, ls[i]), SumIncidence(hit, ls, i + 1))

(* incidence /= float64(len(s.lights)): 0.0/0 is NaN.                      *)
Incidence(hit, ls) == NumDiv(SumIncidence(hit, ls, 1), Len(ls))

(* uint8(f) of a float64 f.  When f is NaN or its integer part is not in   *)
(* 0..255 the language leaves the result to the implementation: cv gives   *)
(* the byte this build produces for NaN (cv.nan) and for a value out of    *)
(* range (cv.over).                                                        *)
InRange(f) == ~f.nan /\ 0 <= Trunc(f.q) /\ Trunc(f.q) <= 255

Uint8(f, cv) ==
    IF f.nan THEN cv.nan
    ELSE IF InRange(f) THEN Trunc(f.q)
    ELSE cv.over

(* float64(v) * incidence / 0xffff * 256                                   *)
Scaled(v, incidence) ==
    IF incidence.nan THEN NaN
    ELSE Num(RMul(RDiv(RMul(I(v), incidence.q), I(65535)), I(256)))

(* The closure toUint of Scene.illumination.                               *)
toUint(v, incidence, cv) == Uint8(Scaled(v, incidence), cv)

Illuminated(c, incidence, cv) ==
    NRGBA(toUint(c[1], incidence, cv), toUint(c[2], incidence, cv),
          toUint(c[3], incidence, cv), 255)

illumination(ls, cv, hit) == Illuminated(RGBA(hit.Colour), Incidence(hit, ls), cv)

(* Which of the two implementation-dependent conversions illumination      *)
(* makes for this hit.                                                     *)
ConversionsAt(c, incidence) ==
    [nan |-> incidence.nan,
     over |-> ~incidence.nan /\ \E i \in 1..3 : ~InRange(Scaled(c[i], incidence))]

Conversions(ls, hit) == ConversionsAt(RGBA(hit.Colour), Incidence(hit, ls))

ambient(r) == NRGBA(0, 0, 0, 255)

----------------------------------------------------------------------------
(* PPiped.Build: the six kites of the parallelepiped.                      *)

PPiped(corner, e1, e2, e3, img) ==
    [Image |-> img, Corner |-> corner, E1 |-> e1, E2 |-> e2, E3 |-> e3]

(* A faulty Build: the last face at the far corner repeats the one before. *)
BuildItemsRepeated(pp) ==
    LET blf == pp.Corner
        trb == Add(Add(Add(pp.Corner, pp.E1), pp.E2), pp.E3)
    IN  << NewKite3(blf, Add(Add(blf, pp.E1), pp.E2), Add(blf, pp.E1), pp.Image),
           NewKite3(blf, Add(Add(blf, pp.E2), pp.E3), Add(blf, pp.E2), pp.Image),
           NewKite3(blf, Add(Add(blf, pp.E3), pp.E1), Add(blf, pp.E3), pp.Image),
           NewKite3(trb, Sub(Sub(trb, pp.E1), pp.E2), Sub(trb, pp.E1), pp.Image),
           NewKite3(trb, Sub(Sub(trb, pp.E2), pp.E3), Sub(trb, pp.E2), pp.Image),
           NewKite3(trb, Sub(Sub(trb, pp.E2), pp.E3), Sub(trb, pp.E2), pp.Image) >>

KitesAt(pp, blf, trb) ==
    << NewKite3(blf, Add(Add(blf, pp.E1), pp.E2), Add(blf, pp.E1), pp.Image),
       NewKite3(blf, Add(Add(blf, pp.E2), pp.E3), Add(blf, pp.E2), pp.Image),
       NewKite3(blf, Add(Add(blf, pp.E3), pp.E1), Add(blf, pp.E3), pp.Image),
       NewKite3(trb, Sub(Sub(trb, pp.E1), pp.E2), Sub(trb, pp.E1), pp.Image),
       NewKite3(trb, Sub(Sub(trb, pp.E2), pp.E3), Sub(trb, pp.E2), pp.Image),
       NewKite3(trb, Sub(Sub(trb, pp.E3), pp.E1), Sub(trb, pp.E3), pp.Image) >>

BuildItems(pp) == KitesAt(pp, pp.Corner, Add(Add(Add(pp.Corner, pp.E1), pp.E2), pp.E3))

----------------------------------------------------------------------------
(* The scene and the calls a program makes on it.                          *)

VARIABLES
    viewerDist,   \* Scene.viewerDist
    screenDist,   \* Scene.screenDist
    children,     \* the children slice of each composite
    lights,       \* Scene.lights
    ppp,          \* the fields of the PPiped
    conv,         \* the builds that agree with every conversion seen so far
    last,         \* the Render call just made and what it returned
    call          \* the call just made of a function that has no receiver state

vars == <<viewerDist, screenDist, children, lights, ppp, conv, last, call>>

(* The composites: the Scene's embedded CompositeItem, a CompositeItem and *)
(* the PPiped's embedded CompositeItem.                                    *)
Composites == {"scene", "ci", "ppp"}

(* The bytes a build may give for uint8(f) when f is out of range.         *)
ImplBytes == {0, 255}

Builds == [nan : ImplBytes, over : ImplBytes]

Light(at, col) == [At |-> at, Colour |-> col]

(* A faulty ray: the direction is not divided by screenDist.               *)
PrimaryRayUnscaled(vd, sd, x, y) ==
    [Dir |-> <<x, y, I(1)>>, At |-> <<I(0), I(0), vd>>]

(* Scene.Render's ray.                                                     *)
PrimaryRay(vd, sd, x, y) ==
    [Dir |-> <<RDiv(x, sd), RDiv(y, sd), I(1)>>, At |-> <<I(0), I(0), vd>>]

(* What Scene.Render returns once s.Intersect(ray) has ended with got.     *)
Returns(x, y, ray, got, ls, cv) ==
    LET colour == IF got.st # "ok" THEN NilColour
                  ELSE IF ~got.hit THEN ambient(ray)
                  ELSE illumination(ls, cv, got.h)
    IN  [n |-> got.n, x |-> x, y |-> y, hit |-> got.hit, h |-> got.h,
         tests |-> got.tests, st |-> got.st, ray |-> ray, colour |-> colour]

RootIntersect(ch, ray) == CompositeIntersect(ch, "scene", ray, Cardinality(Composites))

(* No Render call has been made since the scene was last changed.          *)
NoRender ==
    [n |-> 0, x |-> I(0), y |-> I(0), hit |-> FALSE, h |-> ZeroHit, tests |-> <<>>,
     st |-> "none", ray |-> [Dir |-> Origin, At |-> Origin], colour |-> NilColour]

(* No such call has been made.                                             *)
NoCall == [fn |-> "none", args |-> <<>>, ret |-> <<>>]

(* New(viewerDist, screenDist), beside a PPiped literal pp.                *)
New(vd, sd, pp) ==
    /\ viewerDist = vd
    /\ screenDist = sd
    /\ children = [c \in Composites |-> <<>>]
    /\ lights = <<>>
    /\ ppp = pp
    /\ conv = Builds
    /\ last = NoRender
    /\ call = NoCall

SceneAddItem(i) ==
    /\ children' = [children EXCEPT !["scene"] = Append(@, i)]
    /\ last' = NoRender
    /\ UNCHANGED <<viewerDist, screenDist, lights, ppp, conv, call>>

CompositeAddItem(c, i) ==
    /\ children' = [children EXCEPT ![c] = Append(@, i)]
    /\ last' = NoRender
    /\ UNCHANGED <<viewerDist, screenDist, lights, ppp, conv, call>>

AddLight(l) ==
    /\ lights' = Append(lights, l)
    /\ last' = NoRender
    /\ UNCHANGED <<viewerDist, screenDist, children, ppp, conv, call>>

Build ==
    /\ children' = [children EXCEPT !["ppp"] = BuildItems(ppp)]
    /\ last' = NoRender
    /\ UNCHANGED <<viewerDist, screenDist, lights, ppp, conv, call>>

RenderWith(x, y, ray, got, did) ==
    \E cv \in conv :
        /\ last' = Returns(x, y, ray, got, lights, cv)
        /\ conv' = {b \in conv : /\ did.nan => b.nan = cv.nan
                                 /\ did.over => b.over = cv.over}
        /\ UNCHANGED <<viewerDist, screenDist, children, lights, ppp, call>>

(* A faulty Render: it leaves the root's children in the reverse order.    *)
RenderReordering(x, y) ==
    LET ray == PrimaryRay(viewerDist, screenDist, x, y)
        got == RootIntersect(children, ray)
        root == children["scene"]
    IN  \E cv \in conv :
            /\ last' = Returns(x, y, ray, got, lights, cv)
            /\ children' = [children EXCEPT
                   !["scene"] = [i \in 1..Len(root) |-> root[Len(root) + 1 - i]]]
            /\ UNCHANGED <<viewerDist, screenDist, lights, ppp, conv, call>>

RenderGot(x, y, ray, got) ==
    RenderWith(x, y, ray, got,
               IF got.st = "ok" /\ got.hit THEN Conversions(lights, got.h)
               ELSE [nan |-> FALSE, over |-> FALSE])

Render(x, y) ==
    RenderGot(x, y, PrimaryRay(viewerDist, screenDist, x, y),
              RootIntersect(children, PrimaryRay(viewerDist, screenDist, x, y)))

----------------------------------------------------------------------------
(* The values the calls are made with.                                     *)

TriNear == T3(P3(0, 0, 1), P3(1, 0, 1), P3(0, 1, 1))

TriBehind == T3(P3(0, 0, -3), P3(1, 0, -3), P3(0, 1, -3))

TriFar == T3(P3(0, 0, 10), P3(1, 0, 10), P3(0, 1, 10))

LightAtOrigin == Light(Origin, White)

Texture ==
    Pixels(2, 2, << <<NRGBA(0, 0, 128, 255), NRGBA(128, 0, 0, 255)>>,
                    <<NRGBA(0, 255, 0, 255), White>> >>)

Box == PPiped(P3(-1, -1, 4), P3(2, 0, 0), P3(0, 2, 0), P3(0, 0, 2), Texture)

----------------------------------------------------------------------------
(* Spec: scenes of triangles and a nested composite.                       *)

MaxItems == 3

MaxLights == 1

Items == {T3Item(TriNear), T3Item(TriFar), Ref("ci")}

RenderXY == {<<Rat(1, 40), Rat(1, 40)>>, <<Rat(1, 20), Rat(1, 20)>>}

NumItems == Len(children["scene"]) + Len(children["ci"])

Init == New(I(-5), I(1), Box)

Next ==
    \/ \E i \in Items : NumItems < MaxItems /\ SceneAddItem(i)
    \/ \E i \in Items : NumItems < MaxItems /\ CompositeAddItem("ci", i)
    \/ Len(lights) < MaxLights /\ AddLight(LightAtOrigin)
    \/ \E xy \in RenderXY : Render(xy[1], xy[2])

Spec == Init /\ [][Next]_vars

----------------------------------------------------------------------------
(* SpecTriangles: scenes of up to MaxTriangles triangles, in any order.    *)

MaxTriangles == 3

Triangles == {T3Item(TriNear), T3Item(TriBehind), T3Item(TriFar)}

NewArgs == {<<I(-5), I(1)>>, <<I(-5), I(2)>>}

InitTriangles == \E a \in NewArgs : New(a[1], a[2], Box)

RenderTrianglesXY == RenderXY \cup {<<Rat(9, 10), Rat(9, 10)>>}

NextTriangles ==
    \/ \E i \in Triangles : Len(children["scene"]) < MaxTriangles /\ SceneAddItem(i)
    \/ Len(lights) < MaxLights /\ AddLight(LightAtOrigin)
    \/ \E xy \in RenderTrianglesXY : Render(xy[1], xy[2])

SpecTriangles == InitTriangles /\ [][NextTriangles]_vars

----------------------------------------------------------------------------
(* SpecPPiped: scenes of a PPiped, built or not, and a triangle.           *)

MaxBoxItems == 2

Sheared == PPiped(P3(-1, -1, 4), P3(2, 0, 0), P3(1, 2, 0), P3(0, 1, 2), Texture)

(* The PPiped of MakeScene, with the uniform red image.                    *)
Slab ==
    PPiped(P3(-10, 0, 0), P3(2, 2, 2), P3(1, -10, 0), P3(-10, -3, 2),
           Uniform(NRGBA(128, 0, 0, 255)))

Boxes == {Box, Sheared, Slab}

BoxItems == {Ref("ppp"), T3Item(TriFar)}

RenderBoxXY == {<<I(0), I(0)>>, <<Rat(9, 10), Rat(9, 10)>>}

InitPPiped == \E pp \in Boxes : New(I(-5), I(1), pp)

NextPPiped ==
    \/ \E i \in BoxItems : Len(children["scene"]) < MaxBoxItems /\ SceneAddItem(i)
    \/ Build
    \/ Len(lights) < MaxLights /\ AddLight(LightAtOrigin)
    \/ \E xy \in RenderBoxXY : Render(xy[1], xy[2])

SpecPPiped == InitPPiped /\ [][NextPPiped]_vars

----------------------------------------------------------------------------
(* Calls of functions that read no scene: the call made and what it        *)
(* returned are kept in call, the scene is left alone.                     *)

Called(fn, args, ret) ==
    /\ call' = [fn |-> fn, args |-> args, ret |-> ret]
    /\ UNCHANGED <<viewerDist, screenDist, children, lights, ppp, conv, last>>

R3(at, dir) == [Dir |-> dir, At |-> at]

(* The calls of T3.IntersectUV, in this version and in the earlier one.    *)
(* aim is <<>>, or the weights <<u0, v0>> of the point the ray was aimed   *)
(* at.                                                                     *)
IntersectUVCall(t3, r, aim) == Called("IntersectUV", <<t3, r, aim>>, IntersectUV(t3, r))

IntersectUVFromACall(t3, r, aim) ==
    Called("IntersectUVFromA", <<t3, r, aim>>, IntersectUVFromA(t3, r))

(* The call of Kite3.Intersect; aim is the <<s, t>> of the point           *)
(* C + s*(A-C) + t*(B-C) the ray was aimed at.                             *)
Kite3IntersectCall(k3, r, aim) ==
    Called("Kite3Intersect", <<k3, r, aim>>, Kite3Intersect(k3, r))

----------------------------------------------------------------------------
(* gridToKites and Torus.buildItems.  A grid is a sequence of rows, each a *)
(* sequence of points; grid[i][j] of the code is grid[i + 1][j + 1] here.  *)

numMajorSteps == 32

numMinorSteps == 8

(* A faulty gridToKites: the last row is not joined to the first.          *)
gridToKitesOpen(grid, img) ==
    LET numRows == Len(grid)
        numCols == Len(grid[1])
    IN  [k \in 1..(numRows * numCols) |->
            LET i == (k - 1) \div numCols
                j == (k - 1) % numCols
                row == grid[i + 1]
                next == grid[(IF i + 1 = numRows THEN i ELSE i + 1) + 1]
            IN  NewKite3(row[j + 1], next[((j + 1) % numCols) + 1],
                         row[((j + 1) % numCols) + 1], img)]

(* The k-th append of the two loops is made in row (k-1) \div numCols at   *)
(* column (k-1) % numCols.                                                 *)
gridToKites(grid, img) ==
    LET numRows == Len(grid)
        numCols == Len(grid[1])
    IN  [k \in 1..(numRows * numCols) |->
            LET i == (k - 1) \div numCols
                j == (k - 1) % numCols
                row == grid[i + 1]
                next == grid[((i + 1) % numRows) + 1]
            IN  NewKite3(row[j + 1], next[((j + 1) % numCols) + 1],
                         row[((j + 1) % numCols) + 1], img)]

(* Torus.buildItems hands gridToKites a grid of numMajorSteps rows, each   *)
(* the numMinorSteps points of a minor circle: Circle.Points(steps) adds   *)
(* 2*Pi/steps to theta until theta >= 2*Pi, which in float64 takes 32      *)
(* turns for 32 steps and 8 turns for 8.  The points themselves are sines  *)
(* and cosines; here they are any points the rows and columns tell apart.  *)
buildItems(grid, img) == gridToKites(grid, img)

GridToKitesCall(grid, img) ==
    Called("gridToKites", <<grid, img>>, gridToKites(grid, img))

BuildItemsCall(grid, img) ==
    /\ Len(grid) = numMajorSteps
    /\ \A i \in 1..Len(grid) : Len(grid[i]) = numMinorSteps
    /\ Called("buildItems", <<grid, img>>, buildItems(grid, img))

----------------------------------------------------------------------------
(* Circle.Points: the helper vector v and the vector axis x v that is      *)
(* normalised into the radius rx.                                          *)

PointsHelper(axis) ==
    IF RLess(Dot(P3(1, 0, 0), axis), Epsilon) THEN P3(0, 1, 0) ELSE P3(1, 0, 0)

PointsBasis(axis, v) == [v |-> v, rx |-> Cross(axis, v)]

PointsCall(axis) == Called("Points", <<axis>>, PointsBasis(axis, PointsHelper(axis)))

----------------------------------------------------------------------------
(* SpecTorus: calls of gridToKites, Torus.buildItems and Circle.Points.    *)

MaxRows == 3

MaxCols == 3

MaxFamily == 5

(* The grid of M rows and N columns whose point (i, j) is (i, j, f).       *)
GridOf(M, N, f) == [i \in 1..M |-> [j \in 1..N |-> P3(i, j, f)]]

Grids == {GridOf(M, N, f) : M \in 1..MaxRows, N \in 1..MaxCols, f \in 0..MaxFamily}

TorusGrids == {GridOf(numMajorSteps, numMinorSteps, f) : f \in 0..MaxFamily}

(* The unit vectors whose coordinates are among these.                     *)
AxisCoordinates ==
    {I(0), I(1), I(-1), Rat(3, 5), Rat(-3, 5), Rat(4, 5), Rat(-4, 5),
     Rat(1, 3), Rat(-1, 3), Rat(2, 3), Rat(-2, 3)}

Axes ==
    {a \in AxisCoordinates \X AxisCoordinates \X AxisCoordinates : Len2(a) = I(1)}

InitTorus == New(I(-5), I(1), Box)

NextTorus ==
    \/ \E grid \in Grids : GridToKitesCall(grid, Texture)
    \/ \E grid \in TorusGrids : BuildItemsCall(grid, Texture)
    \/ \E axis \in Axes : PointsCall(axis)

SpecTorus == InitTorus /\ [][NextTorus]_vars

----------------------------------------------------------------------------
(* SpecIntersect: calls of T3.IntersectUV, of this version and of the      *)
(* earlier one, with rays aimed at chosen points of the triangle's plane   *)
(* and with rays that run along the plane, away from it, or close to it.   *)

MaxQuarters == 5

Tilted == T3(P3(2, 0, 0), P3(0, 2, 0), P3(0, 0, 2))

Skew == T3(P3(-1, -1, 4), P3(3, 0, 5), P3(0, 2, 3))

(* Three points on one line.                                               *)
Flat == T3(P3(0, 0, 1), P3(1, 1, 1), P3(2, 2, 1))

UVTriangles == {TriNear, Tilted, Skew, Flat}

(* The weights -1/4, 0, 1/4, ... MaxQuarters/4.                            *)
Weights == {Rat(k, 4) : k \in (-1)..MaxQuarters}

(* A + u0*(B-A) + v0*(C-A)                                                 *)
PointAt(t3, u0, v0) ==
    Add(Add(t3.A, Scale(Sub(t3.B, t3.A), u0)), Scale(Sub(t3.C, t3.A), v0))

Aim(o, target) == R3(o, Sub(target, o))

RayOrigins == {P3(0, 0, -5), P3(1, 1, -2), P3(0, 0, 20)}

Tiny == Rat(1, 2000000)

(* The <<At, Dir>> of rays along the plane z = 1, away from it, from a     *)
(* point of it, from just before it, nearly along it, and with no          *)
(* direction.                                                              *)
FreeRays ==
    {<<P3(0, 0, -5), P3(0, 0, -1)>>, <<P3(0, 0, -5), P3(1, 0, 0)>>,
     <<P3(0, 0, -5), P3(1, -1, 0)>>, <<P3(0, 0, -5), P3(1, 1, -2)>>,
     <<P3(0, 0, -5), P3(0, 0, 0)>>,
     << <<Rat(1, 4), Rat(1, 4), I(1)>>, P3(0, 0, 1) >>,
     << <<Rat(1, 4), Rat(1, 4), I(2)>>, P3(0, 0, 1) >>,
     << <<Rat(1, 4), Rat(1, 4), I(1)>>, P3(1, 0, 0) >>,
     << <<Rat(1, 4), Rat(1, 4), RSub(I(1), Tiny)>>, P3(0, 0, 1) >>,
     << P3(0, 0, -5), <<I(1), I(0), Tiny>> >>}

InitIntersect == New(I(-5), I(1), Box)

NextIntersect ==
    \/ \E t3 \in UVTriangles, o \in RayOrigins, u0 \in Weights, v0 \in Weights :
           IntersectUVCall(t3, Aim(o, PointAt(t3, u0, v0)), <<u0, v0>>)
    \/ \E t3 \in UVTriangles, r \in FreeRays : IntersectUVCall(t3, R3(r[1], r[2]), <<>>)
    \/ \E t3 \in UVTriangles, o \in RayOrigins, u0 \in Weights, v0 \in Weights :
           IntersectUVFromACall(t3, Aim(o, PointAt(t3, u0, v0)), <<u0, v0>>)
    \/ \E t3 \in UVTriangles, r \in FreeRays :
           IntersectUVFromACall(t3, R3(r[1], r[2]), <<>>)

SpecIntersect == InitIntersect /\ [][NextIntersect]_vars

----------------------------------------------------------------------------
(* SpecKite: calls of Kite3.Intersect on kites that carry the PPiped's     *)
(* image, with rays aimed at chosen points of the kite's plane.            *)

(* An image of w by h pixels from min on, every pixel of its own colour.   *)
Painted(w, h, min) ==
    [C |-> NilColour, kind |-> "Pixels", Min |-> min,
     Max |-> <<min[1] + w, min[2] + h>>,
     Pix |-> [y \in 1..h |-> [x \in 1..w |-> NRGBA(x, y, 0, 255)]]]

KiteTextures ==
    {Texture, Painted(4, 4, <<0, 0>>), Painted(2, 4, <<1, 2>>),
     Uniform(NRGBA(128, 0, 0, 255))}

(* The A, B, C of the kites: the front face of Box, and a slanted one.     *)
KiteCorners ==
    {<<P3(-1, -1, 4), P3(1, 1, 4), P3(1, -1, 4)>>,
     <<P3(0, 0, 2), P3(3, 1, 3), P3(2, -1, 2)>>}

KiteOrigins == {P3(0, 0, -5), P3(1, 1, 20)}

(* C + s*(A-C) + t*(B-C)                                                   *)
KitePoint(c, s, t) ==
    Add(Add(c[3], Scale(Sub(c[1], c[3]), s)), Scale(Sub(c[2], c[3]), t))

InitKite ==
    \E img \in KiteTextures :
        New(I(-5), I(1), PPiped(P3(-1, -1, 4), P3(2, 0, 0), P3(0, 2, 0), P3(0, 0, 2), img))

NextKite ==
    \E c \in KiteCorners, o \in KiteOrigins, s \in Weights, t \in Weights :
        Kite3IntersectCall(NewKite3(c[1], c[2], c[3], ppp.Image),
                           Aim(o, KitePoint(c, s, t)), <<s, t>>)

SpecKite == InitKite /\ [][NextKite]_vars

----------------------------------------------------------------------------
(* SpecLit: scenes of triangles that face the viewer, before and behind    *)
(* the world origin, lit by lights at the origin, beside it, and on the    *)
(* far triangle.                                                           *)

MaxFacing == 2

MaxLamps == 2

TriFront == T3(P3(-1, -1, -1), P3(3, -1, -1), P3(-1, 3, -1))

TriBack == T3(P3(-1, -1, 1), P3(3, -1, 1), P3(-1, 3, 1))

TriWide == T3(P3(-1, -1, 10), P3(3, -1, 10), P3(-1, 3, 10))

Facing == {TriFront, TriBack, TriWide}

LampPlaces == {P3(0, 0, 0), P3(5, 5, 0), P3(0, 0, 10)}

RenderLitXY == {<<I(0), I(0)>>, <<Rat(1, 40), Rat(1, 40)>>}

InitLit == New(I(-5), I(1), Box)

NextLit ==
    \/ \E t3 \in Facing : Len(children["scene"]) < MaxFacing /\ SceneAddItem(T3Item(t3))
    \/ \E at \in LampPlaces : Len(lights) < MaxLamps /\ AddLight(Light(at, White))
    \/ \E xy \in RenderLitXY : Render(xy[1], xy[2])

SpecLit == InitLit /\ [][NextLit]_vars

----------------------------------------------------------------------------
(* SpecTree: trees of composites.  The scene, the CompositeItem and the    *)
(* PPiped's embedded CompositeItem take triangles, a kite and each other   *)
(* through AddItem, every composite under one parent at most and none      *)
(* under itself.                                                           *)

MaxTreeLeaves == 2

(* A kite in the plane z = -1, as far from the world origin as TriBack.    *)
Pane == NewKite3(P3(-1, -1, -1), P3(1, 1, -1), P3(1, -1, -1), Texture)

TreeLeaves == {Pane, T3Item(TriBack)}

TreeItems == TreeLeaves \cup {Ref("ci"), Ref("ppp")}

RenderTreeXY == {<<I(0), I(0)>>, <<Rat(-1, 20), Rat(1, 20)>>, <<Rat(1, 2), Rat(1, 2)>>}

(* The places where composite d is a child.                                *)
Parents(ch, d) ==
    UNION {{<<c, i>> : i \in {j \in 1..Len(ch[c]) : ch[c][j] = Ref(d)}} : c \in Composites}

(* The composites under composite c, `depth` levels down at most.          *)
RECURSIVE Under(_, _, _)
Under(ch, c, depth) ==
    IF depth = 0 THEN {}
    ELSE LET below == {d \in Composites : \E i \in 1..Len(ch[c]) : ch[c][i] = Ref(d)}
         IN  below \cup UNION {Under(ch, d, depth - 1) : d \in below}

IsTree(ch) ==
    /\ Parents(ch, "scene") = {}
    /\ \A d \in Composites :
           /\ Cardinality(Parents(ch, d)) <= 1
           /\ d \notin Under(ch, d, Cardinality(Composites))

(* The primitives added so far.                                            *)
TreeSize ==
    Cardinality(UNION {{<<c, i>> : i \in {j \in 1..Len(children[c]) : children[c][j].kind # "Ref"}} :
                          c \in Composites})

InitTree == New(I(-5), I(1), Box)

Fits(i) == i.kind = "Ref" \/ TreeSize < MaxTreeLeaves

NextTree ==
    \/ \E i \in TreeItems : Fits(i) /\ SceneAddItem(i) /\ IsTree(children')
    \/ \E c \in {"ci", "ppp"}, i \in TreeItems :
           Fits(i) /\ CompositeAddItem(c, i) /\ IsTree(children')
    \/ \E xy \in RenderTreeXY : Render(xy[1], xy[2])

SpecTree == InitTree /\ [][NextTree]_vars

----------------------------------------------------------------------------
(* Properties.  In a state where last.st # "none", last is what the Render *)
(* call just made returned, and the scene is the one it was made on.       *)

Rendered == last.st # "none"

Root == children["scene"]

(* What each child of composite c answers, asked on its own with last.ray  *)
(* and `depth` stack frames left.                                          *)
ChildAnswers(c, depth) ==
    [i \in 1..Len(children[c]) |-> ItemIntersect(children, children[c][i], last.ray, depth)]

RECURSIVE SumCounts(_, _)
SumCounts(answers, i) ==
    IF i > Len(answers) THEN 0 ELSE answers[i].n + SumCounts(answers, i + 1)

RootDepth == Cardinality(Composites)

(* C1: when Render returns a hit, the hit is the one some child of the root *)
(* reports, and no child of the root reports a hit whose position is       *)
(* nearer to the world origin (0,0,0); this holds for every order of the   *)
(* children, and the distance from the ray's origin plays no part.         *)
C1_NearestToWorldOrigin ==
    (last.st = "ok" /\ last.hit) =>
        LET answers == ChildAnswers("scene", RootDepth)
            hitting == {i \in 1..Len(Root) : answers[i].hit}
        IN  \E i \in hitting :
                /\ last.h = answers[i].h
                /\ \A j \in hitting : RLeq(Len2(last.h.At), Len2(answers[j].h.At))

(* Three triangles hit along one ray; the nearest to the world origin is   *)
(* the last child, and the nearest to the ray's origin is the second.      *)
C1_Witness ==
    /\ last.st = "ok" /\ last.hit
    /\ Root = <<T3Item(TriFar), T3Item(TriBehind), T3Item(TriNear)>>
    /\ \A i \in 1..3 : ChildAnswers("scene", RootDepth)[i].hit
    /\ last.h.At[3] = I(1)

(* What composite c answers agrees with its children: every child has been *)
(* asked once, in order, and the count is the sum of the children's.       *)
AsksEveryChild(c, depth) ==
    LET got == CompositeIntersect(children, c, last.ray, depth)
        answers == ChildAnswers(c, depth)
    IN  got.st = "ok" =>
            /\ got.tests = [i \in 1..Len(children[c]) |-> i]
            /\ got.n = SumCounts(answers, 1)

(* C2: when Render returns, hit or miss, the root has asked every one of   *)
(* its children exactly once, with no stop after a hit, and the count      *)
(* returned is the sum of the counts of all its children; the same holds   *)
(* of a composite that is a child of the root.                             *)
C2_EveryChildTested ==
    last.st = "ok" =>
        /\ last.tests = [i \in 1..Len(Root) |-> i]
        /\ last.n = SumCounts(ChildAnswers("scene", RootDepth), 1)
        /\ \A i \in 1..Len(Root) :
               Root[i].kind = "Ref" => AsksEveryChild(Root[i].id, RootDepth - 1)

(* The first child is hit, and the nested composite after it is still      *)
(* asked.                                                                  *)
C2_Witness ==
    /\ last.st = "ok" /\ last.hit
    /\ Root = <<T3Item(TriNear), Ref("ci")>>
    /\ children["ci"] = <<T3Item(TriFar)>>
    /\ last.tests = <<1, 2>>
    /\ last.n = 2

(* C4: the ray of a Render(x, y) call starts at (0, 0, viewerDist) and has *)
(* the direction (x/screenDist, y/screenDist, 1); the call ends as the     *)
(* root's Intersect of that ray ends, and when it returns, it returns the  *)
(* root's count, and the colour (0,0,0,255) when the root reports no hit,  *)
(* the illumination of the root's hit otherwise.                           *)
C4_RenderCastsOneRay ==
    Rendered =>
        /\ last.ray.At = <<I(0), I(0), viewerDist>>
        /\ RMul(last.ray.Dir[1], screenDist) = last.x
        /\ RMul(last.ray.Dir[2], screenDist) = last.y
        /\ last.ray.Dir[3] = I(1)
        /\ LET got == RootIntersect(children, last.ray)
           IN  /\ last.st = got.st
               /\ got.st = "ok" =>
                      /\ last.n = got.n
                      /\ last.hit = got.hit
                      /\ ~got.hit => last.colour = NRGBA(0, 0, 0, 255)
                      /\ got.hit =>
                             \E cv \in conv : last.colour = illumination(lights, cv, got.h)

C4_Witness ==
    /\ last.st = "ok" /\ last.hit
    /\ screenDist = I(2)
    /\ lights # <<>>
    /\ last.colour # NRGBA(0, 0, 0, 255)

(* The scene of the end-to-end scenario.                                   *)
Scenario ==
    /\ viewerDist = I(-5) /\ screenDist = I(1)
    /\ Root = <<T3Item(TriFar)>>
    /\ lights = <<LightAtOrigin>>

RenderedAt(x, y) == Rendered /\ last.x = x /\ last.y = y

(* C5 (corrected): in the scenario's scene every Render returns with count *)
(* 1; Render(0.05, 0.05) misses the triangle (its ray meets the plane      *)
(* z = 10 at (0.75, 0.75), outside x + y <= 1) and returns the ambient     *)
(* colour, as Render(0.9, 0.9) does; Render(0.025, 0.025) hits it at       *)
(* (0.375, 0.375, 10) and returns the base colour (128,0,0) scaled by a    *)
(* nonzero incidence.                                                      *)
C5_ScenarioRays ==
    (Scenario /\ Rendered) =>
        /\ last.st = "ok" /\ last.n = 1
        /\ RenderedAt(Rat(1, 20), Rat(1, 20)) =>
               ~last.hit /\ last.colour = NRGBA(0, 0, 0, 255)
        /\ RenderedAt(Rat(9, 10), Rat(9, 10)) =>
               ~last.hit /\ last.colour = NRGBA(0, 0, 0, 255)
        /\ RenderedAt(Rat(1, 40), Rat(1, 40)) =>
               /\ last.hit
               /\ last.h.At = <<Rat(3, 8), Rat(3, 8), I(10)>>
               /\ last.colour.R \in 1..128
               /\ last.colour.G = 0 /\ last.colour.B = 0 /\ last.colour.A = 255

C5_Witness ==
    /\ Scenario
    /\ RenderedAt(Rat(1, 20), Rat(1, 20))
    /\ last.st = "ok" /\ ~last.hit

(* C5 as stated: in the scenario's scene Render(0.05, 0.05) reports a hit, *)
(* and its colour is not the ambient colour.                               *)
C5_AsStated ==
    (Scenario /\ RenderedAt(Rat(1, 20), Rat(1, 20))) =>
        last.hit /\ last.colour # NRGBA(0, 0, 0, 255)

(* The root has no children, or one of its children is a composite that    *)
(* has none: a Scene before its first AddItem, a PPiped before Build.      *)
MeetsNilChildren ==
    \/ Root = <<>>
    \/ \E i \in 1..Len(Root) : Root[i].kind = "Ref" /\ children[Root[i].id] = <<>>

(* C3 (corrected): a Render whose ray meets a composite with no children   *)
(* does not return: Intersect panics ("Null children").  When every        *)
(* composite met has children and none of the root's children reports a    *)
(* hit, Render returns the ambient colour (0,0,0,255) and the sum of the   *)
(* children's counts.                                                      *)
C3_NilChildrenPanic ==
    Rendered =>
        /\ MeetsNilChildren => last.st = "panic"
        /\ last.st = "ok" =>
               LET answers == ChildAnswers("scene", RootDepth)
               IN  (\A i \in 1..Len(Root) : ~answers[i].hit) =>
                       /\ ~last.hit
                       /\ last.colour = NRGBA(0, 0, 0, 255)
                       /\ last.n = SumCounts(answers, 1)

(* Render on a scene whose only item is a PPiped that was never built.     *)
C3_Witness ==
    /\ Rendered
    /\ Root = <<Ref("ppp")>> /\ children["ppp"] = <<>>
    /\ last.st = "panic"

(* C3 as stated: a Render that meets a composite with no children returns  *)
(* no-hit, the ambient colour and the accumulated count; it does not fail. *)
C3_AsStated ==
    (Rendered /\ MeetsNilChildren) =>
        /\ last.st = "ok" /\ ~last.hit
        /\ last.colour = NRGBA(0, 0, 0, 255)
        /\ Root = <<>> => last.n = 0

(* The composites that are children of composite c, and its descendants    *)
(* down to k levels.                                                       *)
Kids(c) ==
    {children[c][i].id : i \in {j \in 1..Len(children[c]) : children[c][j].kind = "Ref"}}

RECURSIVE Within(_, _)
Within(c, k) ==
    IF k = 0 THEN {} ELSE Kids(c) \cup UNION {Within(d, k - 1) : d \in Kids(c)}

(* The places <<p, i>> where composite c is a child.                       *)
Places(c) ==
    {pi \in Composites \X (1..(MaxItems + 1)) :
        /\ pi[2] <= Len(children[pi[1]])
        /\ children[pi[1]][pi[2]] = Ref(c)}

(* C6 as stated: every composite is a child in at most one place, no       *)
(* composite is its own descendant, and no Render ends in an unbounded     *)
(* recursion.  (A T3 is stored by value: each AddItem of one stores a copy *)
(* of its own.)                                                            *)
C6_AsStated ==
    /\ \A c \in Composites : Cardinality(Places(c)) <= 1
    /\ \A c \in Composites : c \notin Within(c, Cardinality(Composites))
    /\ last.st # "overflow"

(* The scene a Render call reads.                                          *)
SceneOf == <<viewerDist, screenDist, children, lights, ppp>>

(* What Render returned is determined by the scene and (x, y): every build *)
(* that agrees with the conversions seen so far returns it.                *)
DeterminedBy(got) ==
    \A cv \in conv :
        last = Returns(last.x, last.y,
                       PrimaryRay(viewerDist, screenDist, last.x, last.y),
                       got, lights, cv)

Determined == Rendered => DeterminedBy(RootIntersect(children, last.ray))

(* A step that ends with a Render's result in last is a Render call: it   *)
(* leaves the scene as it was and keeps to the conversions seen so far,    *)
(* and it returns what the Render before it returned for the same (x, y).  *)
RenderReadsOnly ==
    last'.st # "none" =>
        /\ UNCHANGED SceneOf
        /\ conv' \subseteq conv /\ conv' # {}
        /\ (Rendered /\ last'.x = last.x /\ last'.y = last.y) => last' = last

(* One item is appended to the children of one composite.                  *)
AppendsItem ==
    \E c \in Composites :
        /\ Len(children'[c]) = Len(children[c]) + 1
        /\ SubSeq(children'[c], 1, Len(children[c])) = children[c]
        /\ \A d \in Composites \ {c} : children'[d] = children[d]

(* One light is appended to the lights, the children left alone.           *)
LightsOnlyAppended ==
    lights' # lights =>
        /\ UNCHANGED <<viewerDist, screenDist, children>>
        /\ Len(lights') = Len(lights) + 1
        /\ SubSeq(lights', 1, Len(lights)) = lights

(* C7 (corrected): a Render call leaves viewerDist, screenDist, the        *)
(* children of every composite and the lights as they were; what a Render  *)
(* returned is, at every step that follows it, what the scene and (x, y)   *)
(* determine, so that a Render returns the same whenever it is repeated;   *)
(* a call that changes the children leaves the lights alone, and either    *)
(* appends one item to one composite or is PPiped.Build, which replaces    *)
(* the PPiped's children by its six kites; a call that changes the lights  *)
(* appends one light and leaves the children alone.                        *)
C7_RenderReadsOnly ==
    [][ /\ Determined
        /\ RenderReadsOnly
        /\ children' # children =>
               /\ UNCHANGED <<viewerDist, screenDist, lights>>
               /\ \/ AppendsItem
                  \/ children' = [children EXCEPT !["ppp"] = BuildItems(ppp)]
        /\ LightsOnlyAppended
      ]_vars

(* A Render has returned a hit on a scene with a light and two items, one  *)
(* of them the PPiped, built.                                              *)
C7_Witness ==
    /\ last.st = "ok" /\ last.hit
    /\ lights # <<>>
    /\ Root = <<Ref("ppp"), T3Item(TriFar)>>
    /\ Len(children["ppp"]) = 6

(* C7 as stated: Render leaves the scene unchanged and returns the same    *)
(* when repeated, and only AddItem and AddLight change the scene: every    *)
(* change of the children appends one item to one composite.               *)
C7_AsStated ==
    [][ /\ Determined
        /\ RenderReadsOnly
        /\ children' # children =>
               /\ UNCHANGED <<viewerDist, screenDist, lights>>
               /\ AppendsItem
        /\ LightsOnlyAppended
      ]_vars

(* C8 as stated: when a ray hits an item of a scene with no lights, the    *)
(* call fails with an invalid-scene failure, or the colour it returns is   *)
(* one fixed colour, the same whatever the build.                          *)
C8_AsStated ==
    (Rendered /\ lights = <<>> /\ last.hit) =>
        \/ last.st = "InvalidScene"
        \/ \A b \in Builds : illumination(lights, b, last.h) = last.colour

(* c * k rescaled to 8 bits, the largest value being 255.                  *)
Rescaled(c, k) ==
    LET f == Scaled(c, k)
    IN  IF InRange(f) THEN Trunc(f.q) ELSE 255

(* C9 as stated: with lights, each channel of the colour returned for a    *)
(* hit is the base colour's 16-bit channel times the averaged incidence,   *)
(* rescaled to 0..255 with no wrap-around (65535 at incidence 1 gives      *)
(* 255), and the alpha is 255.                                             *)
C9_AsStated ==
    (last.st = "ok" /\ last.hit /\ lights # <<>>) =>
        LET c == RGBA(last.h.Colour)
            k == Incidence(last.h, lights)
        IN  ~k.nan =>
                /\ last.colour.R = Rescaled(c[1], k)
                /\ last.colour.G = Rescaled(c[2], k)
                /\ last.colour.B = Rescaled(c[3], k)
                /\ last.colour.A = 255

(* The parallelepiped of a PPiped: its vertex corner + a*E1 + b*E2 + c*E3, *)
(* its face on side sd of axis ax, and its edges.                          *)
Bits == {0, 1}

Vertex(pp, abc) ==
    Add(Add(Add(pp.Corner, Scale(pp.E1, I(abc[1]))), Scale(pp.E2, I(abc[2]))),
        Scale(pp.E3, I(abc[3])))

Face(pp, ax, sd) == {Vertex(pp, abc) : abc \in {t \in Bits \X Bits \X Bits : t[ax] = sd}}

Edges(pp) ==
    {{Vertex(pp, st[1]), Vertex(pp, st[2])} :
        st \in {uv \in (Bits \X Bits \X Bits) \X (Bits \X Bits \X Bits) :
                   Cardinality({i \in 1..3 : uv[1][i] # uv[2][i]}) = 1}}

(* The four corners of a kite: A, B, C and the C of its second triangle.   *)
Corners(k3) == {k3.TA.A, k3.TA.B, k3.TA.C, k3.TB.C}

(* C10: after Build the PPiped has exactly six children, all kites, each   *)
(* with the corners A, B, C and A+B-C; their corner sets are the six faces *)
(* of the parallelepiped, no face twice; the first three contain corner,   *)
(* the last three contain corner+E1+E2+E3; and each of the 12 edges lies   *)
(* in exactly two of the kites.                                            *)
C10_SixFaces ==
    children["ppp"] # <<>> =>
        LET ks == children["ppp"]
            far == Vertex(ppp, <<1, 1, 1>>)
        IN  /\ Len(ks) = 6
            /\ \A k \in 1..6 :
                   /\ ks[k].kind = "Kite3"
                   /\ ks[k].TB.A = ks[k].TA.A /\ ks[k].TB.B = ks[k].TA.B
                   /\ ks[k].TB.C = Sub(Add(ks[k].TA.A, ks[k].TA.B), ks[k].TA.C)
            /\ {Corners(ks[k]) : k \in 1..6} = {Face(ppp, ax, sd) : ax \in 1..3, sd \in Bits}
            /\ Cardinality({Corners(ks[k]) : k \in 1..6}) = 6
            /\ \A k \in 1..3 : ppp.Corner \in Corners(ks[k])
            /\ \A k \in 4..6 : far \in Corners(ks[k])
            /\ Cardinality(Edges(ppp)) = 12
            /\ \A e \in Edges(ppp) :
                   Cardinality({k \in 1..6 : e \subseteq Corners(ks[k])}) = 2

(* Build has run on the sheared PPiped.                                    *)
C10_Witness ==
    /\ ppp = Sheared
    /\ Len(children["ppp"]) = 6

(* The row after row i of M rows, and the column after column j of N: the  *)
(* last is followed by the first.                                          *)
After(i, M) == IF i = M - 1 THEN 0 ELSE i + 1

(* C11: gridToKites on a rectangular grid of M >= 1 rows and N >= 1        *)
(* columns returns exactly M*N kites; the kite of cell (i, j), the         *)
(* (i*N + j + 1)-th, is NewKite3(grid[i][j], grid[i'][j'], grid[i][j'])    *)
(* where i' follows i and j' follows j, the last row being followed by row *)
(* 0 and the last column by column 0, so that every index is in range and  *)
(* the last cell uses grid[0][0] and grid[M-1][0]; Torus.buildItems calls  *)
(* it with M = 32 and N = 8.                                               *)
C11_GridToKites ==
    call.fn \in {"gridToKites", "buildItems"} =>
        LET grid == call.args[1]
            img == call.args[2]
            M == Len(grid)
            N == Len(grid[1])
            ks == call.ret
        IN  /\ Len(ks) = M * N
            /\ \A i \in 0..(M - 1) : \A j \in 0..(N - 1) :
                   LET k3 == ks[i * N + j + 1]
                       A == grid[i + 1][j + 1]
                       B == grid[After(i, M) + 1][After(j, N) + 1]
                       C == grid[i + 1][After(j, N) + 1]
                   IN  /\ k3.kind = "Kite3" /\ k3.Image = img
                       /\ k3.TA = T3(A, B, C)
                       /\ k3.TB = T3(A, B, Sub(Add(A, B), C))
            /\ ks[M * N].TA = T3(grid[M][N], grid[1][1], grid[M][1])
            /\ call.fn = "buildItems" => M = 32 /\ N = 8 /\ Len(ks) = 256

(* The torus grid has been turned into its 256 kites, the last of them on  *)
(* grid[31][7], grid[0][0] and grid[31][0].                                *)
C11_Witness ==
    /\ call.fn = "buildItems"
    /\ Len(call.ret) = 256
    /\ call.ret[256].TA = T3(P3(32, 8, 1), P3(1, 1, 1), P3(32, 1, 1))

(* C19 as stated: for every unit axis the helper vector of Circle.Points   *)
(* is (1,0,0) or (0,1,0) and is not parallel to the axis: axis x helper is *)
(* not the zero vector.                                                    *)
C19_AsStated ==
    call.fn = "Points" =>
        /\ call.ret.v \in {P3(1, 0, 0), P3(0, 1, 0)}
        /\ call.ret.rx # Origin

(* The tests of the claim on determinant det, weights u, v and distance t. *)
Accepts(u, v, t) ==
    /\ RLeq(I(0), u) /\ RLeq(u, I(1))
    /\ RLeq(I(0), v) /\ RLeq(RAdd(u, v), I(1))
    /\ RLess(Epsilon, t)

(* What the claim's formulas give for triangle t3 and ray r: det, and      *)
(* where |det| >= Epsilon, u, v and t.                                     *)
DetOf(t3, r) == Dot(Cross(r.Dir, Sub(t3.B, t3.C)), Sub(t3.A, t3.C))

Solved(t3, r, det) ==
    LET e1 == Sub(t3.A, t3.C)
        e2 == Sub(t3.B, t3.C)
        T == Sub(r.At, t3.C)
    IN  [u |-> RDiv(Dot(T, Cross(r.Dir, e2)), det),
         v |-> RDiv(Dot(r.Dir, Cross(T, e1)), det),
         t |-> RDiv(Dot(e2, Cross(T, e1)), det)]

(* C12: T3.IntersectUV reports a hit exactly when |det| >= Epsilon for     *)
(* det = (dir x e2).e1 and then 0 <= u <= 1, v >= 0, u+v <= 1 and          *)
(* t > Epsilon; u, v and t are only formed when |det| >= Epsilon, and they *)
(* are the solution of At + t*Dir = C + u*e1 + v*e2; on a hit u, v and the *)
(* position C + u*e1 + v*e2 are returned, on a miss zeros and the origin;  *)
(* a ray whose direction lies in the triangle's plane is rejected from     *)
(* every origin, and so is a ray that meets the plane at t <= Epsilon.     *)
C12_HitExactlyWhen ==
    call.fn = "IntersectUV" =>
        LET t3 == call.args[1]
            r == call.args[2]
            det == DetOf(t3, r)
            s == Solved(t3, r, det)
        IN  /\ RLess(RAbs(det), Epsilon) => ~call.ret.hit
            /\ Dot(r.Dir, normal(t3)) = I(0) => ~call.ret.hit
            /\ ~RLess(RAbs(det), Epsilon) =>
                   /\ call.ret.hit = Accepts(s.u, s.v, s.t)
                   /\ Add(r.At, Scale(r.Dir, s.t))
                          = Add(Add(t3.C, Scale(Sub(t3.A, t3.C), s.u)),
                                Scale(Sub(t3.B, t3.C), s.v))
                   /\ RLeq(s.t, Epsilon) => ~call.ret.hit
            /\ call.ret.hit =>
                   /\ call.ret.u = s.u /\ call.ret.v = s.v
                   /\ call.ret.p = Add(r.At, Scale(r.Dir, s.t))
            /\ ~call.ret.hit => call.ret = NoHitUV

(* A ray that starts just before the triangle, inside it: t = 1/2000000.   *)
C12_Witness ==
    /\ call.fn = "IntersectUV"
    /\ call.args[1] = TriNear
    /\ call.args[2] = R3(<<Rat(1, 4), Rat(1, 4), RSub(I(1), Tiny)>>, P3(0, 0, 1))
    /\ ~call.ret.hit

(* The call's ray was aimed at the point of weights <<u0, v0>>.            *)
Aimed == call.fn \in {"IntersectUV", "IntersectUVFromA"} /\ Len(call.args[3]) = 2

Inside(u0, v0) == RLeq(I(0), u0) /\ RLeq(I(0), v0) /\ RLeq(RAdd(u0, v0), I(1))

C14_VariantsAgree ==
    call.fn \in {"IntersectUV", "IntersectUVFromA"} =>
        LET fromC == IntersectUV(call.args[1], call.args[2])
            fromA == IntersectUVFromA(call.args[1], call.args[2])
        IN  /\ call.ret = IF call.fn = "IntersectUV" THEN fromC ELSE fromA
            /\ fromC.hit = fromA.hit
            /\ fromC.p = fromA.p
            /\ fromC.hit =>
                   /\ fromA.u = fromC.v
                   /\ fromA.v = RSub(RSub(I(1), fromC.u), fromC.v)

(* The earlier version has reported a hit on the edge A-C, where its u is  *)
(* 0 and this version's u is 1/2: the weights differ, the position does    *)
(* not.                                                                    *)
C14_Witness ==
    /\ Aimed /\ call.fn = "IntersectUVFromA"
    /\ call.args[1] = Tilted
    /\ call.args[3] = <<I(0), Rat(1, 2)>>
    /\ call.ret.hit
    /\ call.ret.u = I(0)
    /\ IntersectUV(call.args[1], call.args[2]).u = Rat(1, 2)
    /\ IntersectUV(call.args[1], call.args[2]).p = call.ret.p

(* C15: Kite3.Intersect returns TA's hit with count 1 whenever TA is hit,  *)
(* also when TB would be hit as well, and then with TA's position and      *)
(* TA's normal; TB's hit with count 2 when TA misses and TB is hit; and    *)
(* no hit with count 2 when both miss.                                     *)
C15_TAThenTB ==
    call.fn = "Kite3Intersect" =>
        LET k3 == call.args[1]
            a == IntersectUV(k3.TA, call.args[2])
            b == IntersectUV(k3.TB, call.args[2])
            ret == call.ret
        IN  /\ ret.st = "ok"
            /\ a.hit => /\ ret.hit /\ ret.n = 1
                        /\ ret.h.At = a.p /\ ret.h.Normal = normal(k3.TA)
            /\ (~a.hit /\ b.hit) =>
                        /\ ret.hit /\ ret.n = 2
                        /\ ret.h.At = b.p /\ ret.h.Normal = normal(k3.TB)
            /\ (~a.hit /\ ~b.hit) => ~ret.hit /\ ret.n = 2 /\ ret.h = ZeroHit

(* A ray through the diagonal A-B, which both triangles contain: the hit   *)
(* is TA's, with count 1 and TA's normal, which is not TB's.               *)
C15_Witness ==
    /\ call.fn = "Kite3Intersect"
    /\ call.args[3] = <<Rat(1, 4), Rat(3, 4)>>
    /\ IntersectUV(call.args[1].TA, call.args[2]).hit
    /\ IntersectUV(call.args[1].TB, call.args[2]).hit
    /\ call.ret.n = 1
    /\ call.ret.h.Normal = normal(call.args[1].TA)
    /\ call.ret.h.Normal # normal(call.args[1].TB)

(* The pixel (Min.X + int(w*u), Min.Y + int(h*v)) of image img, and the    *)
(* pixel (round(w*u), round(h*v)); math.Round rounds halves away from 0.   *)
Width(img) == img.Max[1] - img.Min[1]

Height(img) == img.Max[2] - img.Min[2]

Round(q) == IF q.n >= 0 THEN RFloor(RAdd(q, Rat(1, 2))) ELSE -RFloor(RAdd(RNeg(q), Rat(1, 2)))

TruncatedPixel(img, u, v) ==
    <<img.Min[1] + Trunc(RMul(I(Width(img)), u)), img.Min[2] + Trunc(RMul(I(Height(img)), v))>>

RoundedPixel(img, u, v) ==
    <<Round(RMul(I(Width(img)), u)), Round(RMul(I(Height(img)), v))>>

(* The (u, v) a kite hit is sampled at: TA's as returned, TB's remapped.   *)
SampledAt(a, b) == IF a.hit THEN <<a.u, a.v>> ELSE <<RSub(I(1), b.v), RSub(I(1), b.u)>>

ColourAt(img, xy) == IF img.kind = "Uniform" THEN img.C ELSE At(img, xy[1], xy[2])

(* C16 (corrected): on a hit of TA with (u, v) the base colour is the      *)
(* image's At at pixel (Min.X + int(w*u), Min.Y + int(h*v)), the products  *)
(* truncated towards zero, not rounded, and offset by the bounds' minimum; *)
(* on a hit of TB the same with (1-v, 1-u) for (u, v).  (At gives the zero *)
(* colour for a pixel outside the bounds.)                                 *)
C16_TruncatedPixel ==
    (call.fn = "Kite3Intersect" /\ call.ret.hit) =>
        LET k3 == call.args[1]
            a == IntersectUV(k3.TA, call.args[2])
            b == IntersectUV(k3.TB, call.args[2])
            uv == IF a.hit THEN <<a.u, a.v>> ELSE <<RSub(I(1), b.v), RSub(I(1), b.u)>>
        IN  call.ret.h.Colour = ColourAt(k3.Image, TruncatedPixel(k3.Image, uv[1], uv[2]))

(* A hit of TA at u = 1/4 on the image that is 4 pixels high from row 2    *)
(* on and 2 wide from column 1 on: pixel (1, 3), where rounding gives      *)
(* (1, 1).                                                                 *)
C16_Witness ==
    /\ call.fn = "Kite3Intersect" /\ call.ret.hit /\ call.ret.n = 1
    /\ call.args[1].Image = Painted(2, 4, <<1, 2>>)
    /\ call.args[3] = <<Rat(1, 4), Rat(1, 4)>>
    /\ TruncatedPixel(call.args[1].Image, Rat(1, 4), Rat(1, 4)) = <<1, 3>>
    /\ call.ret.h.Colour = NRGBA(1, 2, 0, 255)

(* C16 as stated: the base colour of a hit is the colour of pixel          *)
(* (round(w*u), round(h*v)), for TB after the remap.                       *)
C16_AsStated ==
    (call.fn = "Kite3Intersect" /\ call.ret.hit) =>
        LET k3 == call.args[1]
            uv == SampledAt(IntersectUV(k3.TA, call.args[2]), IntersectUV(k3.TB, call.args[2]))
        IN  call.ret.h.Colour = ColourAt(k3.Image, RoundedPixel(k3.Image, uv[1], uv[2]))

(* C17: a ray aimed from off the plane at P = C + s*(A-C) + t*(B-C) with   *)
(* s, t in [0, 1] hits the kite at P, in TA when s+t <= 1 and in TB        *)
(* otherwise, and the coordinates the texture is sampled at are (s, t) in  *)
(* both: TA returns (s, t), TB returns (1-t, 1-s), which the remap turns   *)
(* into (s, t); the colour is the one uvToColor gives for (s, t).          *)
C17_ContinuousCoordinates ==
    call.fn = "Kite3Intersect" =>
        LET k3 == call.args[1]
            s == call.args[3][1]
            t == call.args[3][2]
            a == IntersectUV(k3.TA, call.args[2])
            b == IntersectUV(k3.TB, call.args[2])
            inSquare == RLeq(I(0), s) /\ RLeq(s, I(1)) /\ RLeq(I(0), t) /\ RLeq(t, I(1))
        IN  /\ inSquare <=> call.ret.hit
            /\ call.ret.hit =>
                   /\ call.ret.h.At = KitePoint(<<k3.TA.A, k3.TA.B, k3.TA.C>>, s, t)
                   /\ a.hit <=> RLeq(RAdd(s, t), I(1))
                   /\ call.ret.n = IF RLeq(RAdd(s, t), I(1)) THEN 1 ELSE 2
                   /\ SampledAt(a, b) = <<s, t>>
                   /\ ~a.hit => b.u = RSub(I(1), t) /\ b.v = RSub(I(1), s)
                   /\ call.ret.h.Colour = uvToColor(k3.Image, s, t)

(* A hit of TB at (s, t) = (3/4, 1/2) on the 4 x 4 image: TB returns       *)
(* (1/2, 1/4), and the pixel is (3, 2).                                    *)
C17_Witness ==
    /\ call.fn = "Kite3Intersect" /\ call.ret.hit /\ call.ret.n = 2
    /\ call.args[1].Image = Painted(4, 4, <<0, 0>>)
    /\ call.args[3] = <<Rat(3, 4), Rat(1, 2)>>
    /\ IntersectUV(call.args[1].TB, call.args[2]).u = Rat(1, 2)
    /\ IntersectUV(call.args[1].TB, call.args[2]).v = Rat(1, 4)
    /\ call.ret.h.Colour = NRGBA(4, 3, 0, 255)

(* The lights ls, each with colour c.                                      *)
Recoloured(ls, c) == [i \in 1..Len(ls) |-> Light(ls[i].At, c)]

(* C18 as stated: when a hit is illuminated in a scene with lights, the    *)
(* averaged incidence is a number in [0, 1], and the colour returned is    *)
(* the colour for the negated normal, for the normal times 3 and times     *)
(* -1/2, and for the same lights in another colour.                        *)
C18_AsStated ==
    (last.st = "ok" /\ last.hit /\ lights # <<>>) =>
        LET k == Incidence(last.h, lights)
        IN  /\ ~k.nan /\ RLeq(I(0), k.q) /\ RLeq(k.q, I(1))
            /\ \A cv \in conv :
                   /\ last.colour = illumination(lights, cv, last.h)
                   /\ \A f \in {I(-1), I(3), Rat(-1, 2)} :
                          last.colour = illumination(lights, cv,
                              Hit(last.h.At, Scale(last.h.Normal, f), last.h.Colour))
                   /\ last.colour = illumination(Recoloured(lights, NRGBA(255, 0, 0, 255)),
                                                 cv, last.h)

(* C20 as stated: whatever the order of the root's children, in particular *)
(* when they are sorted by ZMin as the earlier version's AddItem leaves    *)
(* them, the root reports the same hit (position, normal and colour) and   *)
(* the same count as Render got.                                           *)
C20_AsStated ==
    last.st = "ok" =>
        \A order \in Reorderings(Root) \cup Sorted(Root) :
            LET got == RootIntersect([children EXCEPT !["scene"] = order], last.ray)
            IN  got.hit = last.hit /\ got.h = last.h /\ got.n = last.n

(* The leaf primitives of the tree under composite c, depth first.         *)
RECURSIVE LeavesOf(_, _, _, _)
LeavesOf(ch, c, i, depth) ==
    IF i > Len(ch[c]) \/ depth = 0 THEN <<>>
    ELSE (IF ch[c][i].kind = "Ref" THEN LeavesOf(ch, ch[c][i].id, 1, depth - 1)
          ELSE <<ch[c][i]>>)
         \o LeavesOf(ch, c, i + 1, depth)

Leaves == LeavesOf(children, "scene", 1, RootDepth)

(* Every composite of the tree has a child.                                *)
FullTree ==
    \A c \in {"scene"} \cup Under(children, "scene", RootDepth) : children[c] # <<>>

(* The one flat composite that holds the leaves.                           *)
FlatAnswer == CompositeIntersect([children EXCEPT !["scene"] = Leaves], "scene", last.ray, RootDepth)

(* What each leaf answers, asked on its own with last.ray.                 *)
LeafAnswers == [i \in 1..Len(Leaves) |-> ItemIntersect(children, Leaves[i], last.ray, 1)]

(* C21: when Render returns on a tree of composites each of which has a    *)
(* child, the root's hit flag, Hit and test count are those of one flat    *)
(* composite holding the tree's leaf primitives in depth-first order, and  *)
(* the Hit is that of the first leaf in this order among the leaves hit at *)
(* the least distance from the world origin.                               *)
C21_TreeAsFlat ==
    (Rendered /\ FullTree) =>
        /\ last.st = "ok" /\ FlatAnswer.st = "ok"
        /\ last.hit = FlatAnswer.hit /\ last.h = FlatAnswer.h /\ last.n = FlatAnswer.n
        /\ last.n = SumCounts(LeafAnswers, 1)
        /\ last.hit = (\E i \in 1..Len(Leaves) : LeafAnswers[i].hit)
        /\ last.hit =>
               \E i \in 1..Len(Leaves) :
                   /\ LeafAnswers[i].hit /\ last.h = LeafAnswers[i].h
                   /\ \A j \in 1..Len(Leaves) :
                          LeafAnswers[j].hit =>
                              /\ ~LenLess(LeafAnswers[j].h.At, last.h.At)
                              /\ j < i => LenLess(last.h.At, LeafAnswers[j].h.At)

(* A tree three composites deep: the ray hits the triangle under the       *)
(* innermost composite and the root's own kite at the same distance.       *)
C21_Witness ==
    /\ last.st = "ok" /\ last.hit
    /\ Root = <<Ref("ci"), Pane>>
    /\ children["ci"] = <<Ref("ppp")>>
    /\ children["ppp"] = <<T3Item(TriBack)>>
    /\ Leaves = <<T3Item(TriBack), Pane>>
    /\ \A i \in 1..2 : LeafAnswers[i].hit
    /\ Len2(LeafAnswers[1].h.At) = Len2(LeafAnswers[2].h.At)
    /\ LeafAnswers[1].h # LeafAnswers[2].h
    /\ last.h = LeafAnswers[1].h
    /\ last.n = 2

(* C22 as stated: on every kite hit of a decoded image the pixel (x, y)    *)
(* that Kite3.Intersect asks the image's At for lies inside the image's    *)
(* bounds, Min.X <= x < Max.X and Min.Y <= y < Max.Y, for the (u, v) of a  *)
(* hit of TA and for the remapped (1-v, 1-u) of a hit of TB, u = 1 and     *)
(* v = 1 included.                                                         *)
C22_AsStated ==
    (call.fn = "Kite3Intersect" /\ call.ret.hit /\ call.args[1].Image.kind = "Pixels") =>
        LET k3 == call.args[1]
            uv == SampledAt(IntersectUV(k3.TA, call.args[2]), IntersectUV(k3.TB, call.args[2]))
            xy == TruncatedPixel(k3.Image, uv[1], uv[2])
        IN  InBounds(k3.Image, xy[1], xy[2])

====
